---- MODULE Spec2Model ----
(***************************************************************************)
(* Model of src/main.py: user engagement and retention analytics.          *)
(*                                                                         *)
(* Instants (datetime) are counted in ticks, TicksPerDay ticks to a        *)
(* calendar day; calendar days (date) are proleptic Gregorian ordinals,    *)
(* as datetime.toordinal() gives them.  Timestamp strings are records      *)
(* [y, m, d, t, ms]: the calendar fields, the time of day in ticks and     *)
(* whether the sub-second component is written.  Date keys                 *)
(* ('YYYY-MM-DD') are the numbers YYYYMMDD, whose numeric order is the     *)
(* lexicographic order of the zero-padded strings.                         *)
(***************************************************************************)
EXTENDS Integers, Sequences, FiniteSets, TLC

(***************************************************************************)
(* Bounds of the model.                                                    *)
(***************************************************************************)
TicksPerDay == 2
MaxTx == 3
MaxEngagementTx == 2
MaxActivity == 4

(***************************************************************************)
(* Calendar arithmetic of datetime.                                        *)
(***************************************************************************)
IsLeap(y) == (y % 4 = 0) /\ ((y % 100 # 0) \/ (y % 400 = 0))

DaysBeforeYear(y) ==
    (y - 1) * 365 + ((y - 1) \div 4) - ((y - 1) \div 100) + ((y - 1) \div 400)

DaysInMonth(y, m) ==
    IF m = 2 THEN (IF IsLeap(y) THEN 29 ELSE 28)
    ELSE IF m \in {4, 6, 9, 11} THEN 30 ELSE 31

RECURSIVE DaysBeforeMonth(_, _)
DaysBeforeMonth(y, m) ==
    IF m = 1 THEN 0 ELSE DaysBeforeMonth(y, m - 1) + DaysInMonth(y, m - 1)

\* date(y, m, d).toordinal()
Ordinal(y, m, d) == DaysBeforeYear(y) + DaysBeforeMonth(y, m) + d

Years == 2015..2019

\* date.fromordinal(n).year / .month / .day
YearOf(n) == CHOOSE y \in Years : DaysBeforeYear(y) < n /\ n <= DaysBeforeYear(y + 1)

MonthOf(n) ==
    LET y == YearOf(n)
        r == n - DaysBeforeYear(y)
    IN  CHOOSE m \in 1..12 :
            DaysBeforeMonth(y, m) < r /\ r <= DaysBeforeMonth(y, m) + DaysInMonth(y, m)

DayOf(n) == n - DaysBeforeYear(YearOf(n)) - DaysBeforeMonth(YearOf(n), MonthOf(n))

\* datetime(y, m, d): midnight of the day
DateTime(y, m, d) == Ordinal(y, m, d) * TicksPerDay

\* datetime.date()
DateOf(ts) == ts \div TicksPerDay

\* timedelta(days=n)
TimeDelta(n) == n * TicksPerDay

TRANSACTIONS_START_DATE == DateTime(2017, 11, 1)

(***************************************************************************)
(* Timestamp parsing and date keys.                                        *)
(***************************************************************************)
\* A parse yields <<instant>>, or <<>> when strptime raises ValueError.
load_timestamp_ms(ts) ==
    IF ts.ms THEN <<Ordinal(ts.y, ts.m, ts.d) * TicksPerDay + ts.t>> ELSE <<>>

load_timestamp(ts) ==
    IF ts.ms THEN <<>> ELSE <<Ordinal(ts.y, ts.m, ts.d) * TicksPerDay + ts.t>>

\* try: load_timestamp_ms(ts)  except ValueError: load_timestamp(ts)
ParseTimestamp(ts) ==
    IF load_timestamp_ms(ts) # <<>> THEN load_timestamp_ms(ts)[1]
    ELSE load_timestamp(ts)[1]

date_key(dte) ==
    LET n == DateOf(dte)
    IN  YearOf(n) * 10000 + MonthOf(n) * 100 + DayOf(n)

\* strptime(key, '%Y-%m-%d').date()
load_timestamp_date(key) ==
    Ordinal(key \div 10000, (key \div 100) % 100, key % 100)

(***************************************************************************)
(* Program state.                                                          *)
(***************************************************************************)
VARIABLES
    pc,                 \* position of the running report
    users,              \* user_id -> account activation instant
    transactions,       \* records of TRANSACTIONS_FILE read so far, in file order
    idx,                \* position of the running loop in what it iterates
    first_tx,           \* user_id -> first transaction instant
    windows,            \* user_id -> window name -> <<opens, closes, flag>>
    flags_first_run,    \* flags when calculate_retention_rate first returned
    timeline,           \* key -> set of user_id seen under the key
    active_users,       \* date key -> count of distinct users transacting
    start_date, total,  \* loop variables of total_users_timeline
    total_users,        \* date key -> running total of activated users
    der_rows,           \* rows written to der_total.csv / der_proportion.csv
    error,              \* exception that ended the run, "" if none
    weeks,              \* week key -> sum of the daily counts of the week
    last_week,          \* count of the previous week in the growth loop
    growth_rows,        \* rows written to wow_growth_daily_active_users.csv
    yesterday_users,    \* user set of the previous key
    daily_gained, daily_dropped, daily_active   \* results of calculate_daily_active_users

retention == <<first_tx, windows, flags_first_run>>
engagement == <<timeline, active_users, start_date, total, total_users, der_rows, error>>
growth == <<weeks, last_week, growth_rows>>
activity == <<yesterday_users, daily_gained, daily_dropped, daily_active>>

vars == <<pc, users, transactions, idx, retention, engagement, growth, activity>>

Empty == [u \in {} |-> 0]

Put(f, k, v) == [x \in DOMAIN f \cup {k} |-> IF x = k THEN v ELSE f[x]]

Stamp(y, m, d, t, ms) == [y |-> y, m |-> m, d |-> d, t |-> t, ms |-> ms]

Tx(u, a, ts) == [user_id |-> u, amount |-> a, timestamp |-> ts]

\* sorted(S) for a set of numbers
RECURSIVE Sorted(_)
Sorted(S) ==
    IF S = {} THEN <<>>
    ELSE LET lo == CHOOSE x \in S : \A y \in S : x <= y
         IN  <<lo>> \o Sorted(S \ {lo})

InitCommon ==
    /\ transactions = <<>>
    /\ idx = 1
    /\ first_tx = Empty
    /\ windows = Empty
    /\ flags_first_run = Empty
    /\ timeline = Empty
    /\ start_date = DateTime(2016, 1, 22)
    /\ total = 0
    /\ total_users = Empty
    /\ der_rows = <<>>
    /\ error = ""
    /\ weeks = Empty
    /\ last_week = 0
    /\ growth_rows = <<>>
    /\ yesterday_users = {}
    /\ daily_gained = Empty
    /\ daily_dropped = Empty
    /\ daily_active = Empty

WindowNames == {"w1", "w2", "w3"}

(***************************************************************************)
(* get_retention_rate: get_first_transaction_per_user,                     *)
(* define_retention_windows, calculate_retention_rate.                     *)
(***************************************************************************)
\* datetime(2018, 6, 15) - timedelta(days=30)
last_tx == DateTime(2018, 6, 15) - TimeDelta(30)

\* Variant: the record read last replaces the recorded one.
FirstTxUpdateOverwrite(ftx, transaction) ==
    LET uid == transaction.user_id
        ts  == ParseTimestamp(transaction.timestamp)
    IN  IF ts > last_tx THEN ftx ELSE Put(ftx, uid, ts)

\* Variant: the cutoff is compared by calendar day, not by instant.
FirstTxUpdateByDay(ftx, transaction) ==
    LET uid == transaction.user_id
        ts  == ParseTimestamp(transaction.timestamp)
    IN  IF DateOf(ts) > DateOf(last_tx) THEN ftx
        ELSE IF (uid \in DOMAIN ftx /\ ts < ftx[uid]) \/ uid \notin DOMAIN ftx
             THEN Put(ftx, uid, ts)
             ELSE ftx

\* One iteration of the loop of get_first_transaction_per_user.
FirstTxUpdate(ftx, transaction) ==
    LET uid == transaction.user_id
        ts  == ParseTimestamp(transaction.timestamp)
    IN  IF ts > last_tx THEN ftx
        ELSE IF (uid \in DOMAIN ftx /\ ts < ftx[uid]) \/ uid \notin DOMAIN ftx
             THEN Put(ftx, uid, ts)
             ELSE ftx

RECURSIVE FirstTxFold(_, _)
FirstTxFold(ftx, stream) ==
    IF stream = <<>> THEN ftx
    ELSE FirstTxFold(FirstTxUpdate(ftx, Head(stream)), Tail(stream))

\* The whole of get_first_transaction_per_user over a stream.
get_first_transaction_per_user(stream) == FirstTxFold(Empty, stream)

\* Variant: the windows close a day or two later, as the comments describe.
define_retention_windows_ranges(ftx) ==
    [u \in DOMAIN ftx |->
        [w1 |-> <<DateOf(ftx[u]) + 7,  DateOf(ftx[u]) + 8,  FALSE>>,
         w2 |-> <<DateOf(ftx[u]) + 13, DateOf(ftx[u]) + 14, FALSE>>,
         w3 |-> <<DateOf(ftx[u]) + 28, DateOf(ftx[u]) + 30, FALSE>>]]

define_retention_windows(ftx) ==
    [u \in DOMAIN ftx |->
        [w1 |-> <<DateOf(ftx[u]) + 7,  DateOf(ftx[u]) + 7,  FALSE>>,
         w2 |-> <<DateOf(ftx[u]) + 14, DateOf(ftx[u]) + 14, FALSE>>,
         w3 |-> <<DateOf(ftx[u]) + 28, DateOf(ftx[u]) + 28, FALSE>>]]

\* Variant: the flag is assigned the outcome of the test.
MarkWindowAssign(w, day) == <<w[1], w[2], w[1] <= day /\ day <= w[2]>>

\* if w[0] <= ts.date() <= w[1]: w[2] = True
MarkWindow(w, day) ==
    IF w[1] <= day /\ day <= w[2] THEN <<w[1], w[2], TRUE>> ELSE w

\* One iteration of the loop of calculate_retention_rate.
RetentionUpdate(wins, transaction) ==
    LET uid == transaction.user_id
        day == DateOf(ParseTimestamp(transaction.timestamp))
    IN  IF uid \notin DOMAIN wins THEN wins
        ELSE [wins EXCEPT ![uid] =
                 [w \in WindowNames |-> MarkWindow(wins[uid][w], day)]]

Flags(wins) == [u \in DOMAIN wins |-> [w \in WindowNames |-> wins[u][w][3]]]

(***************************************************************************)
(* Inputs of the retention report: transactions of u1 on the days 0, 6,    *)
(* 7, 8, 13, 14, 15, 27, 28 and 29 after 2018-04-18, written with and      *)
(* without the sub-second component; day 28 is 2018-05-16, the day of      *)
(* last_tx, at midnight and later that day.  u2, who is not in the users   *)
(* file, transacts a week before last_tx and after it.                     *)
(***************************************************************************)
RetentionStamps ==
    { Stamp(2018, 4, 18, 1, TRUE),  Stamp(2018, 4, 24, 1, TRUE),
      Stamp(2018, 4, 25, 0, FALSE), Stamp(2018, 4, 26, 0, TRUE),
      Stamp(2018, 5, 1, 1, TRUE),   Stamp(2018, 5, 2, 1, FALSE),
      Stamp(2018, 5, 3, 0, TRUE),   Stamp(2018, 5, 15, 1, TRUE),
      Stamp(2018, 5, 16, 0, FALSE), Stamp(2018, 5, 16, 1, TRUE),
      Stamp(2018, 5, 17, 0, TRUE) }

RetentionTx ==
    { Tx("u1", "5", ts) : ts \in RetentionStamps }
    \cup { Tx("u2", "", Stamp(2018, 5, 9, 0, TRUE)),
           Tx("u2", "5", Stamp(2018, 5, 16, 1, FALSE)) }

\* The users of USERS_FILE.
RetentionUsers == { [u \in {"u1"} |-> DateTime(2017, 11, 1) + 1] }

InitRetention ==
    /\ pc = "first_tx"
    /\ users \in RetentionUsers
    /\ active_users = Empty
    /\ InitCommon

\* get_first_transaction_per_user reads one more record of the file.
FirstTxStep ==
    /\ pc = "first_tx"
    /\ Len(transactions) < MaxTx
    /\ \E transaction \in RetentionTx :
          /\ transactions' = Append(transactions, transaction)
          /\ first_tx' = FirstTxUpdate(first_tx, transaction)
    /\ UNCHANGED <<pc, users, idx, windows, flags_first_run, engagement, growth, activity>>

\* The file is exhausted: get_first_transaction_per_user returns.
FirstTxReturn ==
    /\ pc = "first_tx"
    /\ pc' = "define_windows"
    /\ UNCHANGED <<users, transactions, idx, retention, engagement, growth, activity>>

DefineRetentionWindows ==
    /\ pc = "define_windows"
    /\ windows' = define_retention_windows(first_tx)
    /\ pc' = "retention"
    /\ idx' = 1
    /\ UNCHANGED <<users, transactions, first_tx, flags_first_run, engagement, growth, activity>>

\* calculate_retention_rate reads the next record of the same file.
RetentionStep ==
    /\ pc \in {"retention", "retention_again"}
    /\ idx <= Len(transactions)
    /\ windows' = RetentionUpdate(windows, transactions[idx])
    /\ idx' = idx + 1
    /\ UNCHANGED <<pc, users, transactions, first_tx, flags_first_run, engagement, growth, activity>>

\* calculate_retention_rate returns; it is then called again on the same map.
RetentionReturn ==
    /\ pc = "retention"
    /\ idx > Len(transactions)
    /\ flags_first_run' = Flags(windows)
    /\ pc' = "retention_again"
    /\ idx' = 1
    /\ UNCHANGED <<users, transactions, first_tx, windows, engagement, growth, activity>>

RetentionAgainReturn ==
    /\ pc = "retention_again"
    /\ idx > Len(transactions)
    /\ pc' = "retention_done"
    /\ UNCHANGED <<users, transactions, idx, retention, engagement, growth, activity>>

NextRetention ==
    \/ FirstTxStep
    \/ FirstTxReturn
    \/ DefineRetentionWindows
    \/ RetentionStep
    \/ RetentionReturn
    \/ RetentionAgainReturn

SpecRetention == InitRetention /\ [][NextRetention]_vars

(***************************************************************************)
(* The engagement report: total_users_timeline,                            *)
(* calculate_daily_active_transactions, save_daily_engagement_rate_to_csv. *)
(***************************************************************************)
\* f'{x:.2f}' of the quotient n/d scaled by 100: the number of hundredths,
\* rounded to the nearest, a tie to the even one.
RoundHalfEven(n, d) ==
    LET q == n \div d
        r == n % d
    IN  IF 2 * r < d THEN q
        ELSE IF 2 * r > d THEN q + 1
        ELSE IF q % 2 = 0 THEN q ELSE q + 1

\* (a / b) * 100 written with two decimals, b # 0
Percent(a, b) == IF b > 0 THEN RoundHalfEven(a * 10000, b) ELSE RoundHalfEven(-a * 10000, -b)

\* active_users[date_key(activation)] += 1 over the users
ActivationCounts(us) ==
    [k \in { date_key(us[u]) : u \in DOMAIN us } |->
        Cardinality({ u \in DOMAIN us : date_key(us[u]) = k })]

\* timeline[key].add(uid) on a defaultdict(set)
AddTo(tl, key, uid) ==
    Put(tl, key, (IF key \in DOMAIN tl THEN tl[key] ELSE {}) \cup {uid})

\* Variant: the amount is not looked at.
ActiveTxUpdateAnyAmount(tl, us, transaction) ==
    IF transaction.user_id \notin DOMAIN us THEN tl
    ELSE LET ts == ParseTimestamp(transaction.timestamp)
         IN  IF ts < TRANSACTIONS_START_DATE THEN tl
             ELSE AddTo(tl, date_key(ts), transaction.user_id)

\* One iteration of the first loop of calculate_daily_active_transactions.
\* The amount is a string of the CSV record: `not amount` holds of the
\* empty string only.
ActiveTxUpdate(tl, us, transaction) ==
    IF transaction.user_id \notin DOMAIN us THEN tl
    ELSE IF transaction.amount = "" THEN tl
    ELSE LET ts == ParseTimestamp(transaction.timestamp)
         IN  IF ts < TRANSACTIONS_START_DATE THEN tl
             ELSE AddTo(tl, date_key(ts), transaction.user_id)

(***************************************************************************)
(* Inputs of the engagement report: u1 activated the day before            *)
(* TRANSACTIONS_START_DATE, at its midnight or the day after, or u1 and    *)
(* u2 activated on the first two days; transactions of both with an        *)
(* empty, a zero or a positive amount, and one of u3, who is not a user.   *)
(***************************************************************************)
ActivationStamps ==
    { Stamp(2017, 10, 31, 1, TRUE), Stamp(2017, 11, 1, 0, TRUE),
      Stamp(2017, 11, 2, 1, TRUE) }

\* users[user_id] = load_timestamp_ms(account_activation) in load_user_data
EngagementUsers ==
    { [u \in {"u1"} |-> load_timestamp_ms(a)[1]] : a \in ActivationStamps }
    \cup { [u \in {"u1", "u2"} |->
              IF u = "u1" THEN load_timestamp_ms(Stamp(2017, 11, 1, 0, TRUE))[1]
              ELSE load_timestamp_ms(Stamp(2017, 11, 2, 1, TRUE))[1]] }

EngagementTx ==
    { Tx("u1", a, ts) : a \in {"", "0", "5"},
                        ts \in { Stamp(2017, 10, 31, 1, TRUE),
                                 Stamp(2017, 11, 1, 0, FALSE),
                                 Stamp(2017, 11, 2, 1, TRUE) } }
    \cup { Tx("u2", a, ts) : a \in {"", "0", "5"},
                             ts \in { Stamp(2017, 11, 1, 0, FALSE),
                                      Stamp(2017, 11, 2, 1, TRUE) } }
    \cup { Tx("u3", "5", Stamp(2017, 11, 1, 0, FALSE)) }

InitEngagement ==
    /\ pc = "total_users"
    /\ users \in EngagementUsers
    /\ active_users = Empty
    /\ InitCommon

\* An iteration of the while loop of total_users_timeline on a day before
\* TRANSACTIONS_START_DATE: the day is passed over.
TimelineSkip ==
    /\ pc = "total_users"
    /\ start_date <= DateTime(2018, 6, 15)
    /\ start_date < TRANSACTIONS_START_DATE
    /\ start_date' = start_date + TimeDelta(1)
    /\ UNCHANGED <<pc, users, transactions, idx, retention, timeline, active_users,
                   total, total_users, der_rows, error, growth, activity>>

\* An iteration on a later day: the day's activations join the total.
TimelineStep ==
    /\ pc = "total_users"
    /\ start_date <= DateTime(2018, 6, 15)
    /\ ~(start_date < TRANSACTIONS_START_DATE)
    /\ LET key == date_key(start_date)
           t   == IF key \in DOMAIN ActivationCounts(users)
                  THEN total + ActivationCounts(users)[key] ELSE total
       IN  /\ total' = t
           /\ total_users' = Put(total_users, key, t)
    /\ start_date' = start_date + TimeDelta(1)
    /\ UNCHANGED <<pc, users, transactions, idx, retention, timeline, active_users,
                   der_rows, error, growth, activity>>

TimelineReturn ==
    /\ pc = "total_users"
    /\ start_date > DateTime(2018, 6, 15)
    /\ pc' = "active_tx"
    /\ UNCHANGED <<users, transactions, idx, retention, engagement, growth, activity>>

\* calculate_daily_active_transactions reads one more record of the file.
ActiveTxStep ==
    /\ pc = "active_tx"
    /\ Len(transactions) < MaxEngagementTx
    /\ \E transaction \in EngagementTx :
          /\ transactions' = Append(transactions, transaction)
          /\ timeline' = ActiveTxUpdate(timeline, users, transaction)
    /\ UNCHANGED <<pc, users, idx, retention, active_users, start_date, total,
                   total_users, der_rows, error, growth, activity>>

\* The file is exhausted: the second loop counts the users of every day.
ActiveTxGather ==
    /\ pc = "active_tx"
    /\ active_users' = [dte \in DOMAIN timeline |-> Cardinality(timeline[dte])]
    /\ pc' = "der"
    /\ idx' = 1
    /\ UNCHANGED <<users, transactions, retention, timeline, start_date, total,
                   total_users, der_rows, error, growth, activity>>

\* One iteration of the loop of save_daily_engagement_rate_to_csv.
EngagementRateStep ==
    /\ pc = "der"
    /\ idx <= Len(Sorted(DOMAIN active_users))
    /\ LET dte == Sorted(DOMAIN active_users)[idx]
       IN  IF dte \notin DOMAIN total_users
           THEN /\ error' = "KeyError"
                /\ pc' = "failed"
                /\ UNCHANGED <<idx, der_rows>>
           ELSE IF total_users[dte] = 0
           THEN /\ error' = "ZeroDivisionError"
                /\ pc' = "failed"
                /\ UNCHANGED <<idx, der_rows>>
           ELSE /\ der_rows' = Append(der_rows,
                       <<dte, active_users[dte], total_users[dte],
                         Percent(active_users[dte], total_users[dte])>>)
                /\ idx' = idx + 1
                /\ UNCHANGED <<pc, error>>
    /\ UNCHANGED <<users, transactions, retention, timeline, active_users,
                   start_date, total, total_users, growth, activity>>

EngagementRateReturn ==
    /\ pc = "der"
    /\ idx > Len(Sorted(DOMAIN active_users))
    /\ pc' = "engagement_done"
    /\ UNCHANGED <<users, transactions, idx, retention, engagement, growth, activity>>

NextEngagement ==
    \/ TimelineSkip
    \/ TimelineStep
    \/ TimelineReturn
    \/ ActiveTxStep
    \/ ActiveTxGather
    \/ EngagementRateStep
    \/ EngagementRateReturn

SpecEngagement == InitEngagement /\ [][NextEngagement]_vars

(***************************************************************************)
(* The growth report: save_daily_active_users_wow_growth_to_csv.           *)
(***************************************************************************)
\* _isoweek1monday(year) of datetime
IsoWeek1Monday(year) ==
    LET firstday     == Ordinal(year, 1, 1)
        firstweekday == (firstday + 6) % 7
        week1monday  == firstday - firstweekday
    IN  IF firstweekday > 3 THEN week1monday + 7 ELSE week1monday

\* date.isocalendar().week
IsoWeek(n) ==
    LET year == YearOf(n)
        week == (n - IsoWeek1Monday(year)) \div 7
    IN  IF week < 0 THEN ((n - IsoWeek1Monday(year - 1)) \div 7) + 1
        ELSE IF week >= 52 /\ n >= IsoWeek1Monday(year + 1) THEN 1
        ELSE week + 1

\* f'{dte.year} - week {dte.isocalendar().week:02}', as the number YYYYWW
WeekKey(n) == YearOf(n) * 100 + IsoWeek(n)

\* The first loop: weeks[key] += count over the days of active_users.
WeeksOf(au) ==
    LET Sum[S \in SUBSET DOMAIN au] ==
            IF S = {} THEN 0
            ELSE LET k == CHOOSE x \in S : TRUE IN au[k] + Sum[S \ {k}]
    IN  [wk \in { WeekKey(load_timestamp_date(dte)) : dte \in DOMAIN au } |->
            Sum[{ dte \in DOMAIN au : WeekKey(load_timestamp_date(dte)) = wk }]]

Skip == [kind |-> "skip", growth |-> 0]

Written(g) == [kind |-> "row", growth |-> g]

Raised(e) == [kind |-> e, growth |-> 0]

\* Variant: only the first week is passed over; the division is not guarded.
WeekGrowthUnguarded(first, current, last) ==
    IF first THEN Skip
    ELSE IF last = 0 THEN Raised("ZeroDivisionError")
    ELSE Written(Percent(current - last, last))

\* The body of the second loop for a week: the week is passed over, or its
\* growth is written, in hundredths of a percent.
WeekGrowth(first, current, last) ==
    IF last = 0 THEN Skip ELSE Written(Percent(current - last, last))

(***************************************************************************)
(* Inputs of the growth report: daily counts for days of the ISO weeks 52  *)
(* of 2017 (two days), 1 and 2 of 2018.                                    *)
(***************************************************************************)
GrowthDays ==
    { date_key(DateTime(2017, 12, 25)), date_key(DateTime(2017, 12, 31)),
      date_key(DateTime(2018, 1, 1)), date_key(DateTime(2018, 1, 8)) }

GrowthCounts == {0, 50, 100, 150}

InitGrowth ==
    /\ pc = "weeks"
    /\ users = Empty
    /\ \E days \in SUBSET GrowthDays : active_users \in [days -> GrowthCounts]
    /\ InitCommon

GrowthWeeks ==
    /\ pc = "weeks"
    /\ weeks' = WeeksOf(active_users)
    /\ last_week' = 0
    /\ idx' = 1
    /\ pc' = "growth"
    /\ UNCHANGED <<users, transactions, retention, engagement, growth_rows, activity>>

\* One iteration of the second loop.
GrowthStep ==
    /\ pc = "growth"
    /\ idx <= Len(Sorted(DOMAIN weeks))
    /\ LET week == Sorted(DOMAIN weeks)[idx]
           g    == WeekGrowth(idx = 1, weeks[week], last_week)
       IN  IF g.kind = "ZeroDivisionError"
           THEN /\ error' = "ZeroDivisionError"
                /\ pc' = "failed"
                /\ UNCHANGED <<idx, weeks, last_week, growth_rows>>
           ELSE /\ growth_rows' =
                      IF g.kind = "skip" THEN growth_rows
                      ELSE Append(growth_rows, <<week, g.growth>>)
                /\ last_week' = weeks[week]
                /\ idx' = idx + 1
                /\ UNCHANGED <<pc, weeks, error>>
    /\ UNCHANGED <<users, transactions, retention, timeline, active_users,
                   start_date, total, total_users, der_rows, activity>>

GrowthReturn ==
    /\ pc = "growth"
    /\ idx > Len(Sorted(DOMAIN weeks))
    /\ pc' = "growth_done"
    /\ UNCHANGED <<users, transactions, idx, retention, engagement, growth, activity>>

NextGrowth == GrowthWeeks \/ GrowthStep \/ GrowthReturn

SpecGrowth == InitGrowth /\ [][NextGrowth]_vars

(***************************************************************************)
(* calculate_daily_active_users.                                           *)
(***************************************************************************)
\* One iteration of the first loop.
ActivityUpdate(tl, us, act) ==
    IF act.user_id \notin DOMAIN us THEN tl
    ELSE IF act.app_opens = 0 THEN tl
    ELSE AddTo(tl, load_timestamp(act.date)[1], act.user_id)

\* sum([1 for u in users if u not in yesterday_users])
Gained(us, yesterday) == Cardinality({ u \in us : u \notin yesterday })

\* Variant: the comprehension of the gained users, copied unchanged.
DroppedAsGained(us, yesterday) == Cardinality({ u \in us : u \notin yesterday })

\* sum([1 for u in yesterday_users if u not in users])
Dropped(us, yesterday) == Cardinality({ u \in yesterday : u \notin us })

(***************************************************************************)
(* Inputs: records of three users and of u4, who is not a user, on three   *)
(* consecutive days, with no or some app opens.                            *)
(***************************************************************************)
ActivityUsers == [u \in {"u1", "u2", "u3"} |-> DateTime(2016, 1, 22) + 1]

ActivityRecords ==
    { [user_id |-> u, date |-> d, app_opens |-> n] :
        u \in {"u1", "u2", "u3"},
        d \in { Stamp(2018, 2, 27, 0, FALSE), Stamp(2018, 2, 28, 0, FALSE),
                Stamp(2018, 3, 1, 0, FALSE) },
        n \in {0, 2} }
    \cup { [user_id |-> "u4", date |-> Stamp(2018, 2, 28, 0, FALSE), app_opens |-> 2] }

InitActivity ==
    /\ pc = "activity"
    /\ users = ActivityUsers
    /\ active_users = Empty
    /\ InitCommon

\* The first loop reads one more record of the activity file.
ActivityStep ==
    /\ pc = "activity"
    /\ idx <= MaxActivity
    /\ \E act \in ActivityRecords : timeline' = ActivityUpdate(timeline, users, act)
    /\ idx' = idx + 1
    /\ UNCHANGED <<pc, users, transactions, retention, active_users, start_date,
                   total, total_users, der_rows, error, growth, activity>>

\* The file is exhausted; the second loop starts.
ActivityEnd ==
    /\ pc = "activity"
    /\ pc' = "daily"
    /\ idx' = 1
    /\ yesterday_users' = {}
    /\ UNCHANGED <<users, transactions, retention, engagement, growth,
                   daily_gained, daily_dropped, daily_active>>

\* One iteration of the second loop.
DailyStep ==
    /\ pc = "daily"
    /\ idx <= Len(Sorted(DOMAIN timeline))
    /\ LET dte == Sorted(DOMAIN timeline)[idx]
       IN  /\ daily_gained' = Put(daily_gained, dte, Gained(timeline[dte], yesterday_users))
           /\ daily_dropped' = Put(daily_dropped, dte, Dropped(timeline[dte], yesterday_users))
           /\ daily_active' = Put(daily_active, dte, Cardinality(timeline[dte]))
           /\ yesterday_users' = timeline[dte]
    /\ idx' = idx + 1
    /\ UNCHANGED <<pc, users, transactions, retention, engagement, growth>>

DailyReturn ==
    /\ pc = "daily"
    /\ idx > Len(Sorted(DOMAIN timeline))
    /\ pc' = "daily_done"
    /\ UNCHANGED <<users, transactions, idx, retention, engagement, growth, activity>>

NextActivity == ActivityStep \/ ActivityEnd \/ DailyStep \/ DailyReturn

SpecActivity == InitActivity /\ [][NextActivity]_vars

(***************************************************************************)
(* Properties of the retention report.                                     *)
(***************************************************************************)
TxOf(u) == { i \in 1..Len(transactions) : transactions[i].user_id = u }

TxInstant(i) == ParseTimestamp(transactions[i].timestamp)

TxDaysOf(u) == { DateOf(TxInstant(i)) : i \in TxOf(u) }

WindowOffset(w) == CASE w = "w1" -> 7 [] w = "w2" -> 14 [] w = "w3" -> 28

WindowsDefined == pc \in {"retention", "retention_again", "retention_done"}

WindowsEvaluated == pc \in {"retention_again", "retention_done"}

FlagsAbsorbing ==
    [][ /\ \A u \in DOMAIN windows : \A w \in WindowNames :
             windows[u][w][3] => (u \in DOMAIN windows' /\ windows'[u][w][3])
        /\ pc' = "retention_done" => Flags(windows') = flags_first_run' ]_vars

\* The second evaluation has ended; a flag of u1 is set and the last
\* transaction read, also of u1, is on another day than that window's.
FlagsAbsorbingWitness ==
    /\ pc = "retention_done"
    /\ Len(transactions) >= 2
    /\ transactions[Len(transactions)].user_id = "u1"
    /\ "u1" \in DOMAIN windows
    /\ \E w \in WindowNames :
          /\ windows["u1"][w][3]
          /\ DateOf(TxInstant(Len(transactions))) # windows["u1"][w][1]

Orderings(seq) ==
    { [i \in 1..Len(seq) |-> seq[p[i]]] :
        p \in { q \in [1..Len(seq) -> 1..Len(seq)] :
                  \A i, j \in 1..Len(seq) : q[i] = q[j] => i = j } }

QualifyingInstants(u) == { TxInstant(i) : i \in { j \in TxOf(u) : TxInstant(j) <= last_tx } }

Minimum(S) == CHOOSE x \in S : \A y \in S : x <= y

\* get_first_transaction_per_user has just returned its map.
FirstTxReturned == pc = "define_windows"

\* C3: every ordering of the records read gives the map the run returned,
\* and the map holds, for each user with a transaction not later than
\* last_tx, the least instant among those transactions.
FirstTxOrderIndependent ==
    FirstTxReturned =>
       /\ \A stream \in Orderings(transactions) :
             get_first_transaction_per_user(stream) = first_tx
       /\ DOMAIN first_tx =
             { u \in {transactions[i].user_id : i \in 1..Len(transactions)} :
                  QualifyingInstants(u) # {} }
       /\ \A u \in DOMAIN first_tx : first_tx[u] = Minimum(QualifyingInstants(u))

\* A user's later transaction was read before the earlier one, and a
\* transaction after last_tx was read as well.
FirstTxOrderWitness ==
    /\ FirstTxReturned
    /\ \E i, j, k \in 1..Len(transactions) :
          /\ i < j
          /\ transactions[i].user_id = transactions[j].user_id
          /\ TxInstant(j) < TxInstant(i)
          /\ TxInstant(i) <= last_tx
          /\ TxInstant(k) > last_tx
          /\ first_tx[transactions[i].user_id] = TxInstant(j)

SeenUsers == { transactions[i].user_id : i \in 1..Len(transactions) }

\* C4: a user whose earliest transaction is later than last_tx is in
\* neither map; every user of the windows map has a first transaction at or
\* before last_tx; the two maps have the same keys.
TooRecentExcluded ==
    /\ pc # "first_tx" =>
          \A u \in SeenUsers :
             (\A i \in TxOf(u) : TxInstant(i) > last_tx) =>
                (u \notin DOMAIN first_tx /\ u \notin DOMAIN windows)
    /\ \A u \in DOMAIN windows : u \in DOMAIN first_tx /\ first_tx[u] <= last_tx
    /\ WindowsDefined => DOMAIN windows = DOMAIN first_tx

\* u1 transacted only after last_tx, once on the day of last_tx after
\* midnight, and is in neither map once the windows are defined.
TooRecentWitness ==
    /\ WindowsDefined
    /\ Len(transactions) >= 2
    /\ TxOf("u1") # {}
    /\ \A i \in TxOf("u1") : TxInstant(i) > last_tx
    /\ \E i \in TxOf("u1") : DateOf(TxInstant(i)) = DateOf(last_tx)
    /\ "u1" \notin DOMAIN first_tx
    /\ "u1" \notin DOMAIN windows

\* C9: a transaction of a user that is not in the loaded user set adds no
\* user to a day's set and creates no entry in the first-transaction map
\* nor in the windows map.
UnknownUserExcluded ==
    \A u \in SeenUsers \ DOMAIN users :
       /\ u \notin DOMAIN first_tx
       /\ u \notin DOMAIN windows
       /\ \A k \in DOMAIN timeline : u \notin timeline[k]

(***************************************************************************)
(* Properties of the engagement report.                                    *)
(***************************************************************************)
\* C5: save_daily_engagement_rate_to_csv never divides by a zero total:
\* for every day of the active-user series the total is not zero or the
\* day is skipped, and no error is raised.
EngagementRateNeverDividesByZero ==
    /\ error # "ZeroDivisionError"
    /\ pc = "der" =>
          \A dte \in DOMAIN active_users :
             dte \in DOMAIN total_users /\ total_users[dte] # 0

TotalsComputed == pc \notin {"total_users"}

\* C7: for every day from TRANSACTIONS_START_DATE to the end of the range
\* the total of the day is the number of users activated on or before it,
\* the users activated before TRANSACTIONS_START_DATE included.
TotalCountsAllActivated ==
    TotalsComputed =>
       \A key \in DOMAIN total_users :
          total_users[key] =
             Cardinality({ u \in DOMAIN users :
                             DateOf(users[u]) <= load_timestamp_date(key) })

ActiveCounted == pc \in {"der", "failed", "engagement_done"}

\* The users counted on a day when the amounts of NotCounted are dropped.
CountedOn(key, NotCounted) ==
    { u \in DOMAIN users :
        \E i \in TxOf(u) :
           /\ transactions[i].amount \notin NotCounted
           /\ TxInstant(i) >= TRANSACTIONS_START_DATE
           /\ date_key(TxInstant(i)) = key }

DayKeysRead == { date_key(TxInstant(i)) : i \in 1..Len(transactions) }

\* C8: the count of a day is the number of distinct users of the user set
\* with a transaction that day at or after TRANSACTIONS_START_DATE whose
\* amount is neither empty nor zero.
ActiveExcludesEmptyAndZero ==
    ActiveCounted =>
       \A key \in DayKeysRead \cup DOMAIN active_users :
          IF CountedOn(key, {"", "0"}) = {}
          THEN key \notin DOMAIN active_users
          ELSE /\ key \in DOMAIN active_users
               /\ active_users[key] = Cardinality(CountedOn(key, {"", "0"}))

\* C8, amended: the count of a day is the number of distinct users of the
\* user set with a transaction that day at or after
\* TRANSACTIONS_START_DATE whose amount field is not empty; a zero amount
\* counts.
ActiveExcludesEmpty ==
    ActiveCounted =>
       \A key \in DayKeysRead \cup DOMAIN active_users :
          IF CountedOn(key, {""}) = {}
          THEN key \notin DOMAIN active_users
          ELSE /\ key \in DOMAIN active_users
               /\ active_users[key] = Cardinality(CountedOn(key, {""}))

\* u1 transacted twice on a day, once with an amount and once with none,
\* and the day counts one user.
ActiveExcludesEmptyWitness ==
    /\ ActiveCounted
    /\ \E i, j \in TxOf("u1") :
          /\ transactions[i].amount = "5"
          /\ transactions[j].amount = ""
          /\ transactions[i].timestamp = transactions[j].timestamp
          /\ date_key(TxInstant(i)) \in DOMAIN active_users
          /\ active_users[date_key(TxInstant(i))] = 1

(***************************************************************************)
(* Properties of the growth report.                                        *)
(***************************************************************************)
WeekAt(j) == Sorted(DOMAIN weeks)[j]

\* The positions, among the first n weeks, of the weeks whose previous week
\* does not count zero.
WeeksDue(n) == Sorted({ j \in 2..n : weeks[WeekAt(j - 1)] # 0 })

\* g hundredths of a percent is (current - previous) / previous * 100 to
\* two decimals.
IsGrowth(g, current, previous) ==
    LET exact == (current - previous) * 10000
        off   == g * previous - exact
    IN  2 * off <= previous /\ -2 * off <= previous

\* C6: the growth loop never divides by a zero count; a week whose
\* previous week counts zero (the first week too) gets no row and its count
\* is carried forward; every other week gets the row
\* (current - previous) / previous * 100.
GrowthSkipsZeroPrevious ==
    /\ error = ""
    /\ pc \in {"growth", "growth_done"} =>
          /\ last_week = (IF idx = 1 THEN 0 ELSE weeks[WeekAt(idx - 1)])
          /\ Len(growth_rows) = Len(WeeksDue(idx - 1))
          /\ \A k \in 1..Len(growth_rows) :
                LET j == WeeksDue(idx - 1)[k]
                IN  /\ growth_rows[k][1] = WeekAt(j)
                    /\ IsGrowth(growth_rows[k][2], weeks[WeekAt(j)], weeks[WeekAt(j - 1)])

\* Weeks counting 0, 100 and 150: no row for the first two, 50.00% for the
\* third.
GrowthWitness ==
    /\ pc = "growth_done"
    /\ Len(Sorted(DOMAIN weeks)) = 3
    /\ weeks[WeekAt(1)] = 0 /\ weeks[WeekAt(2)] = 100 /\ weeks[WeekAt(3)] = 150
    /\ growth_rows = << <<WeekAt(3), 5000>> >>

(***************************************************************************)
(* Properties of calculate_daily_active_users.                             *)
(***************************************************************************)
DayAt(j) == Sorted(DOMAIN timeline)[j]

PreviousSet(j) == IF j = 1 THEN {} ELSE timeline[DayAt(j - 1)]

PreviousTotal(j) == IF j = 1 THEN 0 ELSE daily_active[DayAt(j - 1)]

\* C10: for every key, in sorted order, gained counts the users of the
\* key's set that are not in the previous key's set, dropped the users of
\* the previous set that are not in the key's, total is the size of the
\* set, and total = previous total + gained - dropped.
GainedDroppedTotal ==
    pc \in {"daily", "daily_done"} =>
       /\ DOMAIN daily_active = { DayAt(j) : j \in 1..(idx - 1) }
       /\ DOMAIN daily_gained = DOMAIN daily_active
       /\ DOMAIN daily_dropped = DOMAIN daily_active
       /\ \A j \in 1..(idx - 1) :
             /\ daily_gained[DayAt(j)] = Cardinality(timeline[DayAt(j)] \ PreviousSet(j))
             /\ daily_dropped[DayAt(j)] = Cardinality(PreviousSet(j) \ timeline[DayAt(j)])
             /\ daily_active[DayAt(j)] = Cardinality(timeline[DayAt(j)])
             /\ daily_active[DayAt(j)] =
                  PreviousTotal(j) + daily_gained[DayAt(j)] - daily_dropped[DayAt(j)]

\* {u1, u2} on a day and {u2, u3} on the next: gained 1, dropped 1, total 2.
GainedDroppedWitness ==
    /\ pc = "daily_done"
    /\ \E j \in 2..Len(Sorted(DOMAIN timeline)) :
          /\ timeline[DayAt(j - 1)] = {"u1", "u2"}
          /\ timeline[DayAt(j)] = {"u2", "u3"}
          /\ DateOf(DayAt(j)) = DateOf(DayAt(j - 1)) + 1
          /\ daily_gained[DayAt(j)] = 1
          /\ daily_dropped[DayAt(j)] = 1
          /\ daily_active[DayAt(j)] = 2

====
